---- MODULE Spec2Model ----
(***************************************************************************)
(* A model of the judge-agent orchestration code: the tools the            *)
(* orchestrator model may call (council, research, planning, classify,     *)
(* askPossibility, askAdditionalInfo, ...) and the tool-calling loop that  *)
(* streamText runs over them.                                              *)
(*                                                                         *)
(* The components are modelled as separate specifications over one set of  *)
(* variables; a specification leaves the variables of the other            *)
(* components at their initial values.                                     *)
(*   SpecCouncil   executeCouncil (councilTool.ts)                         *)
(*   SpecResearch  researchTool.execute (researchTool.ts)                  *)
(*   SpecPlan      planningTool: planningSchema and execute                *)
(*   SpecExec      the execution of an accepted plan by tool calls         *)
(*   Spec          one conversation: POST /api/chat, the streamText loop,  *)
(*                 the client's addToolResult                              *)
(***************************************************************************)
EXTENDS Integers, Sequences, FiniteSets, TLC

VARIABLES
    \* ---- executeCouncil
    councilPc,        \* "idle" | "awaiting" | "returned" | "threw"
    councilArgs,      \* the arguments of the call in progress
    councilResult,    \* the value the promise of executeCouncil resolved to
    councilFault      \* the fault description of the model call, <<>> if none

councilVars == <<councilPc, councilArgs, councilResult, councilFault>>

VARIABLES
    \* ---- researchTool.execute
    apiKeySet,        \* process.env.EXA_API_KEY is set
    researchPc,       \* "idle" | "running" | "returned" | "threw" | "loadFailed"
    queries,          \* the queries argument
    promiseState,     \* per query: "pending" | "fulfilled" | "rejected"
    promiseValue,     \* per query: the value its promise was fulfilled with
    searchOutcome,    \* per query: what exa.searchAndContents did
    researchResult,   \* the array execute resolved to
    searchCalls       \* the number of exa.searchAndContents calls made

researchVars == <<apiKeySet, researchPc, queries, promiseState, promiseValue,
                  searchOutcome, researchResult, searchCalls>>

VARIABLES
    \* ---- planningTool
    planPc,           \* "idle" | "validated" | "rejected" | "returned"
    planArgs,         \* the arguments of the planning tool call
    planIssues,       \* the issues of planningSchema: <<agent index, path>>
    planResult        \* the value execute returned

planVars == <<planPc, planArgs, planIssues, planResult>>

VARIABLES
    \* ---- the execution of an accepted plan by the tool-calling loop
    execPlan,         \* the agents of the plan the planning tool returned
    nodeState,        \* per agent: "waiting" | "inflight" | "settled" | "recorded"
    nodeCall,         \* per agent: the tool call that carries it, 0 if none yet
    stepOpen          \* the orchestrator model is still emitting this step

execVars == <<execPlan, nodeState, nodeCall, stepOpen>>

VARIABLES
    \* ---- one conversation: useChat on the client, POST /api/chat on the server
    status,           \* useChat's status: "ready" | "submitted" | "streaming" | "error"
    stepCount,        \* the steps streamText has started in the current request
    callsInStep,      \* the tool calls the orchestrator emitted in the current step
    lastTool,         \* the tool of the most recent tool call, "none" if none
    awaitsClient,     \* a call of the current step has no execute: it waits for the client
    possibility,      \* isPossible of the last askPossibility result of the task
    assessed,         \* the assessment tools called since the task began or resumed
    infoReq,          \* the askAdditionalInfo invocation: "none" | "call" | "result"
    answered,         \* an answer to an information request was recorded in this task
    planExists,       \* the planning tool returned a plan in this task
    planEmpty,        \* the agents list of the last returned plan is empty
    councilCalled,    \* the council tool was executed in this task
    finalDone         \* the finalAnswer tool was executed in this task

runVars == <<status, stepCount, callsInStep, lastTool, awaitsClient, possibility,
             assessed, infoReq, answered, planExists, planEmpty, councilCalled,
             finalDone>>

\* What the conversation holds of the calls of planning, council and
\* finalAnswer.
taskFlags == <<planEmpty, councilCalled, finalDone>>

VARIABLES
    \* ---- classificationTool.execute and askPossibilityTool.execute
    assessPc,         \* "idle" | "awaiting" | "returned" | "threw"
    assessTool,       \* the tool of the call: "none" | "classify" | "askPossibility"
    assessArgs,       \* the arguments of the call
    assessOutcome,    \* what the model call of the call did
    assessResult      \* the value the promise of execute resolved to

assessVars == <<assessPc, assessTool, assessArgs, assessOutcome, assessResult>>

VARIABLES
    \* ---- the contextualizer tool of a request and executeContextualizer
    ctxLocal,         \* localContext of the body of the request
    ctxPc,            \* "idle" | "searching" | "returned" | "threw"
    ctxQuery,         \* args.query of the call
    ctxFiles,         \* the file names of the context executeContextualizer received
    ctxOutcome,       \* what generateText did for the call
    ctxResult,        \* the value the promise of executeContextualizer resolved to
    ctxSearches       \* the generateText calls made by the call

ctxVars == <<ctxLocal, ctxPc, ctxQuery, ctxFiles, ctxOutcome, ctxResult, ctxSearches>>

VARIABLES
    \* ---- POST of the route with overrideUserMessage
    ovPc,             \* "idle" | "received" | "streaming"
    ovBody,           \* the messages and the override as the caller sent them
    ovOriginal,       \* originalMessages, the array parsed from the body
    ovProcessed,      \* processedMessages
    ovMessages        \* messages, what streamText is given

ovVars == <<ovPc, ovBody, ovOriginal, ovProcessed, ovMessages>>

VARIABLES
    \* ---- MessageList: the requests for the user's input
    invocations,         \* toolCallId -> the tool invocation part of the message
    additionalInfoInput, \* the state additionalInfoInput: toolCallId -> text
    resultsAdded         \* toolCallId -> the addToolResult calls made for it

hitlVars == <<invocations, additionalInfoInput, resultsAdded>>

VARIABLES
    \* ---- the step loops: streamText on the server, useChat on the client
    loopRoute,        \* the route variant that serves the chat
    loopPc,           \* "ready" | "streaming" | "finished"
    loopSteps,        \* the steps streamText has started in the current request
    lastStep,         \* what the last finished step held: "none" | "text" | "server" | "client"
    messageStep,      \* the steps of the assistant message, counted up to clientMaxSteps + 1
    autoResubmits     \* the requests useChat sent by itself for the current message

loopVars == <<loopRoute, loopPc, loopSteps, lastStep, messageStep, autoResubmits>>

VARIABLES
    \* ---- ChatPage and ChatInput: the form of the user's message
    formStatus,       \* useChat's status
    formInput,        \* useChat's input, the text of the textarea
    storedTexts,      \* what getExtractedTexts() returns: the stored file names
    lastPost,         \* the message last appended and the body sent with it
    postCount         \* the messages appended by handleFormSubmit

formVars == <<formStatus, formInput, storedTexts, lastPost, postCount>>

VARIABLES
    \* ---- fileStorage.ts
    storage,          \* localStorage[STORAGE_KEY] parsed: file name -> record, NoRecord if no own property
    lastOp,           \* file name -> the last call made for it: "none" | "save" | "remove"
    lastSaved         \* file name -> the record of the last saveExtractedText call for it

storageVars == <<storage, lastOp, lastSaved>>

vars == <<councilVars, researchVars, planVars, execVars, runVars, assessVars,
          ctxVars, ovVars, hitlVars, loopVars, formVars, storageVars>>

(***************************************************************************)
(* councilTool.ts                                                          *)
(***************************************************************************)

\* z.enum of councilOutputSchema.judgement
Judgements == {"passed", "hallucination", "not_verified", "not_aligned", "error"}

\* The strings the model uses for explanations and for the texts of the
\* arguments; a string is a sequence of pieces so that "contains" is decidable.
Texts == {<<"t1">>, <<"t2">>}

\* What the council model may answer: any judgement word (one outside the
\* enum included) and an explanation that is a string or is missing.
RawJudgements == Judgements \cup {"maybe"}

RawObjects ==
    [judgement : RawJudgements, hasExplanation : BOOLEAN, explanation : Texts]

\* councilOutputSchema: z.object({judgement: z.enum([...]), explanation: z.string()})
councilOutputSchema(raw) ==
    /\ raw.judgement \in Judgements
    /\ raw.hasExplanation

\* The messages of the Errors the provider call may throw, and the values it
\* may throw that are not Errors.
FaultMessages == {"provider unreachable", "rate limited"}

NoObjectMessage == "No object generated: response did not match schema."

\* An outcome of the model call: a raw object, a thrown Error, a thrown value
\* that is not an Error.
ModelOutcomes ==
    [kind : {"object"}, raw : RawObjects, message : {""}]
    \cup [kind : {"Error", "value"},
          raw : {[judgement |-> "maybe", hasExplanation |-> FALSE,
                  explanation |-> <<"t1">>]},
          message : FaultMessages]

\* generateObject({model, prompt, schema}): resolves with the parsed object,
\* or throws: the provider's fault, or an Error when the answer does not
\* match the schema.
generateObject(outcome) ==
    IF outcome.kind = "object"
    THEN IF councilOutputSchema(outcome.raw)
         THEN [threw |-> FALSE, isError |-> FALSE, message |-> "",
               object |-> [judgement |-> outcome.raw.judgement,
                           explanation |-> outcome.raw.explanation]]
         ELSE [threw |-> TRUE, isError |-> TRUE, message |-> NoObjectMessage,
               object |-> [judgement |-> "none", explanation |-> <<>>]]
    ELSE [threw |-> TRUE, isError |-> outcome.kind = "Error",
          message |-> outcome.message,
          object |-> [judgement |-> "none", explanation |-> <<>>]]

\* error instanceof Error ? error.message : String(error); a thrown value
\* that is not an Error is a string here, which String() leaves as it is.
ErrorText(g) == g.message

NoVerdict == [judgement |-> "none", explanation |-> <<>>]

CouncilCatchRethrow(g) ==
    [pc |-> "threw", result |-> NoVerdict]

\* The catch clause of executeCouncil.
CouncilCatch(g) ==
    [pc |-> "returned",
     result |-> [judgement |-> "error",
                 explanation |->
                     <<"Council evaluation failed with exception: ", ErrorText(g)>>]]

CouncilInputs ==
    [aggregatedToolResults : Texts, userQuery : Texts, conversationHistory : Texts]

NoArgs == [aggregatedToolResults |-> <<>>, userQuery |-> <<>>,
           conversationHistory |-> <<>>]

IdleCouncil ==
    /\ councilPc = "idle"
    /\ councilArgs = NoArgs
    /\ councilResult = NoVerdict
    /\ councilFault = <<>>

\* executeCouncil(args) up to the await of generateObject.
CouncilCall ==
    /\ councilPc \in {"idle", "returned"}
    /\ \E args \in CouncilInputs :
          councilArgs' = args
    /\ councilPc' = "awaiting"
    /\ councilResult' = NoVerdict
    /\ councilFault' = <<>>

\* The model call settles; executeCouncil returns the evaluation or runs its
\* catch clause.
CouncilSettle ==
    /\ councilPc = "awaiting"
    /\ \E outcome \in ModelOutcomes :
          LET g == generateObject(outcome)
              c == CouncilCatch(g)
          IN  IF g.threw
              THEN /\ councilPc' = c.pc
                   /\ councilResult' = c.result
                   /\ councilFault' = <<g.message>>
              ELSE /\ councilPc' = "returned"
                   /\ councilResult' = g.object
                   /\ councilFault' = <<>>
    /\ UNCHANGED councilArgs

(***************************************************************************)
(* classificationTool.ts and askPossibilityTool.ts                         *)
(***************************************************************************)

\* z.enum of the classification schema's complexity
Complexities ==
    {"CRITICAL_COMPLEXITY", "HIGH_COMPLEXITY", "MODERATE_COMPLEXITY",
     "LOW_COMPLEXITY", "MINIMAL_COMPLEXITY", "TRIVIAL"}

\* What the classification model may answer: any complexity word (one
\* outside the enum included) and a reasoning that is a string or is missing.
ClassificationRaw ==
    [verdict : Complexities \cup {"UNKNOWN"}, hasText : BOOLEAN, text : Texts]

\* z.object({reasoning: z.string(), complexity: z.enum([...])})
classificationSchema(raw) ==
    /\ raw.verdict \in Complexities
    /\ raw.hasText

\* What the possibility model may answer.
PossibilityRaw ==
    [verdict : {"YES", "NO", "MAYBE"}, hasText : BOOLEAN, text : Texts]

\* possibilitySchema: z.object({isPossible: z.enum(['YES', 'NO']),
\*                               justification: z.string()})
possibilitySchema(raw) ==
    /\ raw.verdict \in {"YES", "NO"}
    /\ raw.hasText

NoRaw == [verdict |-> "none", hasText |-> FALSE, text |-> <<>>]

\* An outcome of the model call of an assessment tool: a raw object, a
\* thrown Error, a thrown value that is not an Error.
AssessOutcomes(raws) ==
    [kind : {"object"}, raw : raws, message : {""}]
    \cup [kind : {"Error", "value"}, raw : {NoRaw}, message : FaultMessages]

NoAssessOutcome == [kind |-> "none", raw |-> NoRaw, message |-> ""]

\* generateObject({model, schema, prompt}) of an assessment tool; valid is
\* whether the raw answer matches the schema of the call.
generateAssessment(outcome, valid) ==
    IF outcome.kind = "object"
    THEN IF valid
         THEN [threw |-> FALSE, message |-> "", object |-> outcome.raw]
         ELSE [threw |-> TRUE, message |-> NoObjectMessage, object |-> NoRaw]
    ELSE [threw |-> TRUE, message |-> outcome.message, object |-> NoRaw]

\* The value of a call that has not returned; key is the property of the
\* returned object that holds the payload.
NoAssessment ==
    [success |-> FALSE, key |-> "none", payload |-> NoRaw, error |-> ""]

ClassifyCatchRethrow(g) ==
    [pc |-> "threw", result |-> NoAssessment]

\* catch (error) { return { success: false, error: 'Failed to classify query.' } }
ClassifyCatch(g) ==
    [pc |-> "returned",
     result |-> [success |-> FALSE, key |-> "none", payload |-> NoRaw,
                 error |-> "Failed to classify query."]]

\* catch (error) { return { success: false,
\*                           error: 'Failed to evaluate task possibility.' } }
PossibilityCatch(g) ==
    [pc |-> "returned",
     result |-> [success |-> FALSE, key |-> "none", payload |-> NoRaw,
                 error |-> "Failed to evaluate task possibility."]]

ClassifyInputs == [userQuery : Texts]

PossibilityInputs == [taskDescription : Texts, contextText : Texts]

IdleAssess ==
    /\ assessPc = "idle"
    /\ assessTool = "none"
    /\ assessArgs = <<>>
    /\ assessOutcome = NoAssessOutcome
    /\ assessResult = NoAssessment

\* classify.execute({userQuery}) up to the await of generateObject.
ClassifyCall ==
    /\ assessPc \in {"idle", "returned"}
    /\ \E args \in ClassifyInputs : assessArgs' = args
    /\ assessTool' = "classify"
    /\ assessPc' = "awaiting"
    /\ assessOutcome' = NoAssessOutcome
    /\ assessResult' = NoAssessment

\* The model call of classify settles: execute returns
\* {success: true, classification} or runs its catch clause.
ClassifySettle ==
    /\ assessPc = "awaiting"
    /\ assessTool = "classify"
    /\ \E outcome \in AssessOutcomes(ClassificationRaw) :
          LET g == generateAssessment(outcome, classificationSchema(outcome.raw))
              c == ClassifyCatch(g)
          IN  /\ assessOutcome' = outcome
              /\ IF g.threw
                 THEN /\ assessPc' = c.pc
                      /\ assessResult' = c.result
                 ELSE /\ assessPc' = "returned"
                      /\ assessResult' =
                            [success |-> TRUE, key |-> "classification",
                             payload |-> g.object, error |-> ""]
    /\ UNCHANGED <<assessTool, assessArgs>>

\* askPossibility.execute({taskDescription, contextText}) up to the await of
\* generateObject: the prompt is built from availableTools and the arguments.
PossibilityCall ==
    /\ assessPc \in {"idle", "returned"}
    /\ \E args \in PossibilityInputs : assessArgs' = args
    /\ assessTool' = "askPossibility"
    /\ assessPc' = "awaiting"
    /\ assessOutcome' = NoAssessOutcome
    /\ assessResult' = NoAssessment

\* The model call of askPossibility settles: execute returns
\* {success: true, result} or runs its catch clause.
PossibilitySettle ==
    /\ assessPc = "awaiting"
    /\ assessTool = "askPossibility"
    /\ \E outcome \in AssessOutcomes(PossibilityRaw) :
          LET g == generateAssessment(outcome, possibilitySchema(outcome.raw))
              c == PossibilityCatch(g)
          IN  /\ assessOutcome' = outcome
              /\ IF g.threw
                 THEN /\ assessPc' = c.pc
                      /\ assessResult' = c.result
                 ELSE /\ assessPc' = "returned"
                      /\ assessResult' =
                            [success |-> TRUE, key |-> "result",
                             payload |-> g.object, error |-> ""]
    /\ UNCHANGED <<assessTool, assessArgs>>

(***************************************************************************)
(* contextualizerTool.ts, and the contextualizer tool that POST builds     *)
(* around executeContextualizer. A string is the sequence of its           *)
(* characters.                                                             *)
(***************************************************************************)

MaxQueryLen == 4

MaxReplyLen == 2

Chars == {" ", "a"}

Strings(n) == UNION {[1..k -> Chars] : k \in 0..n}

RECURSIVE TrimStart(_)
TrimStart(str) ==
    IF str # <<>> /\ Head(str) = " " THEN TrimStart(Tail(str)) ELSE str

RECURSIVE TrimEnd(_)
TrimEnd(str) ==
    IF str # <<>> /\ str[Len(str)] = " "
    THEN TrimEnd(SubSeq(str, 1, Len(str) - 1))
    ELSE str

\* String.prototype.trim
Trim(str) == TrimEnd(TrimStart(str))

FileNames == {"f1"}

\* localContext of a request body: missing, or a map from file names to
\* extracted files, given by its keys.
LocalContexts ==
    {[present |-> FALSE, files |-> {}]}
    \cup [present : {TRUE}, files : SUBSET FileNames]

\* What generateText does: resolves with a text, throws an Error, throws a
\* value that is not an Error.
SearchReplies ==
    [kind : {"text"}, text : Strings(MaxReplyLen), message : {""}]
    \cup [kind : {"Error", "value"}, text : {<<>>}, message : FaultMessages]

NoReply == [kind |-> "none", text |-> <<>>, message |-> ""]

\* error: undefined
NoError == [set |-> FALSE, text |-> ""]

NoContext == [query |-> <<>>, foundContext |-> <<>>, error |-> NoError]

\* The fixed texts of foundContext are one piece each.
ContextualizerReturn(query, found, error) ==
    [query |-> query, foundContext |-> found, error |-> [set |-> TRUE, text |-> error]]

\* if (!query || query.trim().length < 3)
QueryTooShort(query) == query = <<>> \/ Len(Trim(query)) < 3

\* executeContextualizer before its try: the value it returns without a
\* search, NoContext when it goes on to search.
ContextualizerGuards(query, files) ==
    IF QueryTooShort(query)
    THEN ContextualizerReturn(query,
             <<"Search not performed: Query was too short or vague.">>,
             "Query too vague for search.")
    ELSE IF files = {}
    THEN ContextualizerReturn(query,
             <<"Search not performed: No local file context was provided with the request.">>,
             "No local context available.")
    ELSE NoContext

ContextualizerCatchRethrow(query, reply) ==
    [pc |-> "threw", result |-> NoContext]

\* The catch clause of executeContextualizer.
ContextualizerCatch(query, reply) ==
    [pc |-> "returned",
     result |-> ContextualizerReturn(query,
                    <<"An error occurred while searching the file context.">>,
                    IF reply.kind = "Error"
                    THEN reply.message
                    ELSE "An unknown error occurred during LLM context search.")]

\* executeContextualizer after the await of generateText.
ContextualizerAfterSearch(query, reply) ==
    IF reply.kind # "text"
    THEN ContextualizerCatch(query, reply)
    ELSE IF reply.text = <<>> \/ Trim(reply.text) = <<>>
    THEN [pc |-> "returned",
          result |-> ContextualizerReturn(query,
              <<"The AI search assistant could not find relevant information for the query in the provided files.">>,
              "LLM search returned empty.")]
    ELSE [pc |-> "returned",
          result |-> [query |-> query, foundContext |-> Trim(reply.text),
                      error |-> NoError]]

DefaultToolContext(localContext) == {}

\* execute: async (args) => executeContextualizer(args, localContext || {})
RouteToolContext(localContext) ==
    IF localContext.present THEN localContext.files ELSE {}

IdleContextualizer ==
    /\ ctxLocal = [present |-> FALSE, files |-> {}]
    /\ ctxPc = "idle"
    /\ ctxQuery = <<>>
    /\ ctxFiles = {}
    /\ ctxOutcome = NoReply
    /\ ctxResult = NoContext
    /\ ctxSearches = 0

\* POST: the body of a request is read and runtimeTools is built with the
\* contextualizer tool closed over its localContext.
ContextRequest ==
    /\ ctxPc \in {"idle", "returned"}
    /\ ctxLocal' \in LocalContexts
    /\ ctxPc' = "idle"
    /\ ctxQuery' = <<>>
    /\ ctxFiles' = {}
    /\ ctxOutcome' = NoReply
    /\ ctxResult' = NoContext
    /\ ctxSearches' = 0

\* The orchestrator calls contextualizer: executeContextualizer runs up to
\* one of its early returns or to the await of generateText.
ContextualizerCall ==
    /\ ctxPc \in {"idle", "returned"}
    /\ \E query \in Strings(MaxQueryLen) :
          LET files == RouteToolContext(ctxLocal)
              early == ContextualizerGuards(query, files)
          IN  /\ ctxQuery' = query
              /\ ctxFiles' = files
              /\ ctxResult' = early
              /\ ctxPc' = IF early = NoContext THEN "searching" ELSE "returned"
              /\ ctxSearches' = IF early = NoContext THEN 1 ELSE 0
    /\ ctxOutcome' = NoReply
    /\ UNCHANGED ctxLocal

\* generateText settles.
ContextualizerSettle ==
    /\ ctxPc = "searching"
    /\ \E reply \in SearchReplies :
          LET after == ContextualizerAfterSearch(ctxQuery, reply)
          IN  /\ ctxOutcome' = reply
              /\ ctxPc' = after.pc
              /\ ctxResult' = after.result
    /\ UNCHANGED <<ctxLocal, ctxQuery, ctxFiles, ctxSearches>>

(***************************************************************************)
(* The route variant with overrideUserMessage: POST up to streamText.      *)
(***************************************************************************)

MaxMessages == 3

\* content of a CoreMessage: a string, or an array of parts.
MessageContents ==
    [isString : {TRUE}, value : {"m1", "m2"}]
    \cup [isString : {FALSE}, value : {"parts"}]

CoreMessages == [role : {"user", "assistant"}, content : MessageContents]

MessageLists == UNION {[1..n -> CoreMessages] : n \in 0..MaxMessages}

\* overrideUserMessage?: string: missing, or a string ("" is the empty one).
Overrides == [given : BOOLEAN, value : {"", "o"}]

SystemMessage ==
    [role |-> "system", content |-> [isString |-> TRUE, value |-> "systemPrompt"]]

\* The index the loop for (let i = length - 1; i >= 0; i--) breaks at: the
\* last message with role 'user' and string content; 0 when it ends without.
RECURSIVE LastUserString(_, _)
LastUserString(msgs, i) ==
    IF i = 0
    THEN 0
    ELSE IF msgs[i].role = "user" /\ msgs[i].content.isString
         THEN i
         ELSE LastUserString(msgs, i - 1)

\* if (overrideUserMessage): a missing and an empty string are both falsy.
Truthy(override) == override.given /\ override.value # ""

ApplyOverrideInPlace(original, override) ==
    LET i == LastUserString(original, Len(original))
        changed == IF Truthy(override) /\ i > 0
                   THEN [original EXCEPT
                            ![i].content = [isString |-> TRUE, value |-> override.value]]
                   ELSE original
    IN  [original |-> changed, processed |-> changed]

\* const processedMessages = [...originalMessages] and the override loop:
\* the arrays after it. processedMessages[i] = {...message, content} puts a
\* new object into the copy.
ApplyOverride(original, override) ==
    LET i == LastUserString(original, Len(original))
    IN  [original |-> original,
         processed |-> IF Truthy(override) /\ i > 0
                       THEN [original EXCEPT
                                ![i].content =
                                    [isString |-> TRUE, value |-> override.value]]
                       ELSE original]

NoBody == [messages |-> <<>>, override |-> [given |-> FALSE, value |-> ""]]

IdleOverride ==
    /\ ovPc = "idle"
    /\ ovBody = NoBody
    /\ ovOriginal = <<>>
    /\ ovProcessed = <<>>
    /\ ovMessages = <<>>

\* const {messages: originalMessages, localContext, overrideUserMessage}
\*     = await req.json()
OverrideReceive ==
    /\ ovPc = "idle"
    /\ \E msgs \in MessageLists, override \in Overrides :
          /\ ovBody' = [messages |-> msgs, override |-> override]
          /\ ovOriginal' = msgs
    /\ ovPc' = "received"
    /\ ovProcessed' = <<>>
    /\ ovMessages' = <<>>

\* The rest of POST up to the call of streamText.
OverrideApply ==
    /\ ovPc = "received"
    /\ LET r == ApplyOverride(ovOriginal, ovBody.override)
       IN  /\ ovOriginal' = r.original
           /\ ovProcessed' = r.processed
           /\ ovMessages' = <<SystemMessage>> \o r.processed
    /\ ovPc' = "streaming"
    /\ UNCHANGED ovBody

(***************************************************************************)
(* MessageList.tsx: the controls of askForConfirmation and                 *)
(* askAdditionalInfo invocations, handleInputChange and handleSubmitInput. *)
(***************************************************************************)

MaxResultsAdded == 2

ToolCallIds == {"c1", "c2", "c3"}

\* What the user may type into an input field.
InputTexts == {"", "a", "b"}

NoInvocation == [toolName |-> "none", state |-> "none", result |-> ""]

ControlsOfferedAfterResult(invocation) ==
    invocation.state \in {"call", "result"}

\* switch (state) { case 'call': ... }: the buttons and the input field are
\* rendered for an invocation in state 'call' only.
ControlsOffered(invocation) == invocation.state = "call"

\* addToolResult({toolCallId, result}): the invocation gets the result and
\* state 'result'.
addToolResult(invs, toolCallId, result) ==
    [invs EXCEPT ![toolCallId] = [@ EXCEPT !.state = "result", !.result = result]]

handleInputChangeShared(prev, toolCallId, value) ==
    [id \in DOMAIN prev |-> value]

\* setAdditionalInfoInput(prev => ({...prev, [toolCallId]: value}))
handleInputChange(prev, toolCallId, value) ==
    [prev EXCEPT ![toolCallId] = value]

\* handleSubmitInput: if (addToolResult && additionalInfoInput[toolCallId])
\*     addToolResult({toolCallId, result: additionalInfoInput[toolCallId]})
handleSubmitInput(inputs, toolCallId) ==
    [submit |-> inputs[toolCallId] # "", result |-> inputs[toolCallId]]

IdleHitl ==
    /\ invocations = [id \in ToolCallIds |-> NoInvocation]
    /\ additionalInfoInput = [id \in ToolCallIds |-> ""]
    /\ resultsAdded = [id \in ToolCallIds |-> 0]

\* A call of a tool without execute arrives in the stream of the assistant
\* message: the invocation is in state 'call'.
InvocationArrives ==
    /\ \E id \in ToolCallIds, t \in {"askForConfirmation", "askAdditionalInfo"} :
          /\ invocations[id].state = "none"
          /\ invocations' = [invocations EXCEPT
                                ![id] = [toolName |-> t, state |-> "call", result |-> ""]]
    /\ UNCHANGED <<additionalInfoInput, resultsAdded>>

\* onClick of the Yes or the No button of a confirmation.
ConfirmClick ==
    /\ \E id \in ToolCallIds, answer \in {"Yes, confirmed.", "No, denied"} :
          /\ invocations[id].toolName = "askForConfirmation"
          /\ ControlsOffered(invocations[id])
          /\ resultsAdded[id] < MaxResultsAdded
          /\ invocations' = addToolResult(invocations, id, answer)
          /\ resultsAdded' = [resultsAdded EXCEPT ![id] = @ + 1]
    /\ UNCHANGED additionalInfoInput

\* onChange of the input field of an information request.
InputChange ==
    /\ \E id \in ToolCallIds, value \in InputTexts :
          /\ invocations[id].toolName = "askAdditionalInfo"
          /\ ControlsOffered(invocations[id])
          /\ additionalInfoInput' = handleInputChange(additionalInfoInput, id, value)
    /\ UNCHANGED <<invocations, resultsAdded>>

\* handleSubmitInput(toolCallId), from the Submit button of an information
\* request.
SubmitInput ==
    /\ \E id \in ToolCallIds :
          LET h == handleSubmitInput(additionalInfoInput, id)
          IN  /\ invocations[id].toolName = "askAdditionalInfo"
              /\ ControlsOffered(invocations[id])
              /\ resultsAdded[id] < MaxResultsAdded
              /\ IF h.submit
                 THEN /\ invocations' = addToolResult(invocations, id, h.result)
                      /\ resultsAdded' = [resultsAdded EXCEPT ![id] = @ + 1]
                 ELSE UNCHANGED <<invocations, resultsAdded>>
    /\ UNCHANGED additionalInfoInput

(***************************************************************************)
(* researchTool.ts                                                         *)
(***************************************************************************)

MaxQueries == 3

QueryTexts == {"q1", "q2"}

\* z.array(z.string()): the arrays of at most MaxQueries queries.
QueryLists == UNION {[1..n -> QueryTexts] : n \in 0..MaxQueries}

\* A result of Exa: title and text may be missing ("" stands for a missing or
\* empty, that is falsy, field).
ExaItems == [title : {"", "T"}, url : {"u"}, text : {"", "X"}]

ExaResultLists == {<<>>} \cup {<<it>> : it \in ExaItems}

\* What exa.searchAndContents does for one query: resolves with results, or
\* throws an Error with a message, or throws a value that is not an Error.
SearchOutcomes ==
    [kind : {"ok"}, results : ExaResultLists, message : {""}]
    \cup [kind : {"Error"}, results : {<<>>}, message : FaultMessages]
    \cup [kind : {"value"}, results : {<<>>}, message : {"thrown value"}]

NoOutcome == [kind |-> "none", results |-> <<>>, message |-> ""]

\* res => ({title: res.title || 'No title available', url: res.url,
\*          text: res.text || 'No text content retrieved.'})
MapResult(res) ==
    [title |-> IF res.title = "" THEN "No title available" ELSE res.title,
     url   |-> res.url,
     text  |-> IF res.text = "" THEN "No text content retrieved." ELSE res.text]

NoEntry == [query |-> "", results |-> <<>>, error |-> ""]

\* error: undefined is written error |-> "".
SearchCatchRethrow(query, outcome) ==
    [state |-> "rejected", value |-> NoEntry]

\* The catch clause of the search of one query.
SearchCatch(query, outcome) ==
    [state |-> "fulfilled",
     value |-> [query |-> query, results |-> <<>>,
                error |-> IF outcome.kind = "Error"
                          THEN outcome.message
                          ELSE "An unknown error occurred during searchAndContents."]]

\* The body of queries.map(async (query) => {...}) after its await.
SearchBody(query, outcome) ==
    IF outcome.kind = "ok"
    THEN [state |-> "fulfilled",
          value |-> [query |-> query,
                     results |-> [i \in 1..Len(outcome.results) |->
                                     MapResult(outcome.results[i])],
                     error |-> ""]]
    ELSE SearchCatch(query, outcome)

PromiseAllDropFailed(states, values) ==
    IF \E i \in 1..Len(states) : states[i] = "rejected"
    THEN [state |-> "rejected", value |-> <<>>]
    ELSE IF \A i \in 1..Len(states) : states[i] = "fulfilled"
         THEN [state |-> "fulfilled",
               value |-> SelectSeq(values, LAMBDA v : v.error = "")]
         ELSE [state |-> "pending", value |-> <<>>]

\* Promise.all(searchPromises): rejected as soon as one promise is rejected,
\* fulfilled with the values in the order of the promises once all are.
PromiseAll(states, values) ==
    IF \E i \in 1..Len(states) : states[i] = "rejected"
    THEN [state |-> "rejected", value |-> <<>>]
    ELSE IF \A i \in 1..Len(states) : states[i] = "fulfilled"
         THEN [state |-> "fulfilled", value |-> values]
         ELSE [state |-> "pending", value |-> <<>>]

IdleResearch ==
    /\ apiKeySet = TRUE
    /\ researchPc = "idle"
    /\ queries = <<>>
    /\ promiseState = <<>>
    /\ promiseValue = <<>>
    /\ searchOutcome = <<>>
    /\ researchResult = <<>>
    /\ searchCalls = 0

NoKeyEntriesNone(qs) == <<>>

\* queries.map(query => ({query, results: [],
\*                         error: "EXA_API_KEY is not configured."}))
NoKeyEntries(qs) ==
    [i \in 1..Len(qs) |->
        [query |-> qs[i], results |-> <<>>,
         error |-> "EXA_API_KEY is not configured."]]

\* execute({queries}) without EXA_API_KEY: returns at once.
ResearchNoKey ==
    /\ researchPc = "idle"
    /\ ~apiKeySet
    /\ \E qs \in QueryLists :
          /\ queries' = qs
          /\ researchResult' = NoKeyEntries(qs)
          /\ promiseState' = <<>>
          /\ promiseValue' = <<>>
          /\ searchOutcome' = [i \in 1..Len(qs) |-> NoOutcome]
    /\ researchPc' = "returned"
    /\ UNCHANGED <<apiKeySet, searchCalls>>

\* execute({queries}) up to await Promise.all: queries.map starts one search
\* per query, all of them before any is awaited.
ResearchCall ==
    /\ researchPc = "idle"
    /\ apiKeySet
    /\ \E qs \in QueryLists :
          /\ queries' = qs
          /\ promiseState' = [i \in 1..Len(qs) |-> "pending"]
          /\ promiseValue' = [i \in 1..Len(qs) |-> NoEntry]
          /\ searchOutcome' = [i \in 1..Len(qs) |-> NoOutcome]
          /\ searchCalls' = searchCalls + Len(qs)
    /\ researchPc' = "running"
    /\ UNCHANGED <<apiKeySet, researchResult>>

\* One search settles, in any order.
SearchSettle ==
    /\ researchPc \in {"running", "threw"}
    /\ \E i \in 1..Len(queries) :
          /\ promiseState[i] = "pending"
          /\ \E outcome \in SearchOutcomes :
                LET b == SearchBody(queries[i], outcome)
                IN  /\ promiseState' = [promiseState EXCEPT ![i] = b.state]
                    /\ promiseValue' = [promiseValue EXCEPT ![i] = b.value]
                    /\ searchOutcome' = [searchOutcome EXCEPT ![i] = outcome]
    /\ UNCHANGED <<apiKeySet, researchPc, queries, researchResult, searchCalls>>

\* const finalResults = await Promise.all(searchPromises); return finalResults
ResearchReturn ==
    /\ researchPc = "running"
    /\ LET all == PromiseAll(promiseState, promiseValue)
       IN  /\ all.state # "pending"
           /\ researchPc' = IF all.state = "fulfilled" THEN "returned" ELSE "threw"
           /\ researchResult' = all.value
    /\ UNCHANGED <<apiKeySet, queries, promiseState, promiseValue,
                   searchOutcome, searchCalls>>

(***************************************************************************)
(* planningTool.ts                                                         *)
(***************************************************************************)

MaxAgents == 2

\* The type words the orchestrator is told about (the system prompt's
\* "Available Agent Types" and AgentPlan.type of MessageList.tsx).
AgentTypeWords == {"researcher", "qa", "contextualizer", "analyst"}

\* The order numbers and dependency values of the candidate plans.
OrderValues == {1, 2}

\* query: z.string().optional(): missing, or a string (here of length 0 or 1).
QueryValues ==
    {[present |-> FALSE, text |-> <<>>],
     [present |-> TRUE, text |-> <<>>],
     [present |-> TRUE, text |-> <<"q">>]}

\* dependencies: z.array(z.number()), as the set of its values; the
\* candidate agents have no dependency or one.
DependencySets == {{}} \cup {{d} : d \in OrderValues}

CandidateAgents ==
    [type : AgentTypeWords, order : OrderValues, purpose : {"p"},
     dependencies : DependencySets, query : QueryValues]

CandidatePlans ==
    [task : {"task"},
     agents : UNION {[1..n -> CandidateAgents] : n \in 0..MaxAgents}]

\* "Limit: AT MOST 2 'researcher' agents with the same order number (rate
\* limits)": the only limit on parallel research the repository states.
ResearcherLimit == 2

\* Researcher agents with a query and no dependency.
ResearcherAgents ==
    {a \in CandidateAgents :
        /\ a.type = "researcher"
        /\ a.dependencies = {}
        /\ a.query = [present |-> TRUE, text |-> <<"q">>]}

\* The plans of one researcher more than the limit.
CrowdedPlans ==
    [task : {"task"}, agents : [1..(ResearcherLimit + 1) -> ResearcherAgents]]

\* z.enum(['researcher', 'contextualizer', 'analyst'])
agentTypeEnum == {"researcher", "contextualizer", "analyst"}

QueryRequiredTypes == {"researcher", "contextualizer", "analyst"}

agentRefineAnyString(agent) ==
    IF agent.type \in QueryRequiredTypes
    THEN agent.query.present
    ELSE TRUE

\* The predicate of agentSchema's refine:
\*   if (['researcher', 'contextualizer', 'analyst'].includes(agent.type))
\*       return typeof agent.query === 'string' && agent.query.length > 0;
\*   return true;
agentRefine(agent) ==
    IF agent.type \in QueryRequiredTypes
    THEN agent.query.present /\ Len(agent.query.text) > 0
    ELSE TRUE

\* agentSchema: the issues of one agent. The object is parsed first; the
\* refinement runs only on an object that parsed, and reports at path query.
agentSchema(agent) ==
    IF agent.type \notin agentTypeEnum
    THEN {"type"}
    ELSE IF ~agentRefine(agent) THEN {"query"} ELSE {}

\* planningSchema: z.object({task: z.string(), agents: z.array(agentSchema)}),
\* the issues of every agent collected.
planningSchema(args) ==
    {ip \in (1..Len(args.agents)) \X {"type", "query"} :
        ip[2] \in agentSchema(args.agents[ip[1]])}

NoPlan == [task |-> "", agents |-> <<>>]

IdlePlan ==
    /\ planPc = "idle"
    /\ planArgs = NoPlan
    /\ planIssues = {}
    /\ planResult = NoPlan

\* The orchestrator calls planning: the arguments are parsed with
\* planningSchema (parameters); execute runs only on arguments that parse.
PlanningCall ==
    /\ planPc = "idle"
    /\ \E args \in CandidatePlans \cup CrowdedPlans :
          /\ planArgs' = args
          /\ planIssues' = planningSchema(args)
          /\ planPc' = IF planningSchema(args) = {} THEN "validated" ELSE "rejected"
    /\ UNCHANGED planResult

planningExecuteRepairing(args) ==
    [args EXCEPT !.agents =
        [i \in 1..Len(args.agents) |->
            [args.agents[i] EXCEPT !.dependencies =
                {d \in args.agents[i].dependencies : d < args.agents[i].order}]]]

\* execute: async (args) => { console.log(...); return args; }
planningExecute(args) == args

\* The planning call is executed.
PlanningExecute ==
    /\ planPc = "validated"
    /\ planResult' = planningExecute(planArgs)
    /\ planPc' = "returned"
    /\ UNCHANGED <<planArgs, planIssues>>

(***************************************************************************)
(* The execution of a plan: route.ts, streamText({tools, maxSteps}). In a  *)
(* step the orchestrator model emits tool calls; each call is executed as  *)
(* soon as it is emitted, the calls of a step run concurrently, and the    *)
(* next step starts when every call of the step has returned its result.   *)
(* Which agents of the plan a step calls is the model's choice: no code    *)
(* reads order or dependencies.                                            *)
(***************************************************************************)

MaxExecNodes == 3

\* The agents of the plans whose execution is modelled: every type of the
\* enum, with a query, depending on earlier orders only.
ExecAgents ==
    {a \in [type : agentTypeEnum, order : OrderValues, purpose : {"p"},
            dependencies : DependencySets,
            query : {[present |-> TRUE, text |-> <<"q">>]}] :
        \A d \in a.dependencies : d < a.order}

\* dependencies: "order numbers for agents that must complete before this one
\* starts": earlier orders, that some agent of the plan has.
WellFormedPlan(agents) ==
    \A i \in 1..Len(agents) :
        \A d \in agents[i].dependencies :
            /\ d < agents[i].order
            /\ \E j \in 1..Len(agents) : agents[j].order = d

\* The plans executed: accepted by planningSchema and well-formed.
ExecPlans ==
    {agents \in UNION {[1..n -> ExecAgents] : n \in 1..MaxExecNodes} :
        /\ planningSchema([task |-> "task", agents |-> agents]) = {}
        /\ WellFormedPlan(agents)}

Nodes == 1..Len(execPlan)

Min(S) == CHOOSE x \in S : \A y \in S : x <= y

IdleExec ==
    /\ execPlan = <<>>
    /\ nodeState = <<>>
    /\ nodeCall = <<>>
    /\ stepOpen = FALSE

\* The orchestrator emits a research call: "Gather all queries specified for
\* 'researcher' agents in the plan. Pass these queries as a single array".
\* researchTool.execute starts every search of the array at once (queries.map).
EmitResearch ==
    /\ stepOpen
    /\ \E R \in SUBSET {n \in Nodes : execPlan[n].type = "researcher"
                                      /\ nodeState[n] = "waiting"} :
          /\ R # {}
          /\ nodeState' = [n \in Nodes |-> IF n \in R THEN "inflight" ELSE nodeState[n]]
          /\ nodeCall' = [n \in Nodes |-> IF n \in R THEN Min(R) ELSE nodeCall[n]]
    /\ UNCHANGED <<execPlan, stepOpen>>

\* The orchestrator emits a contextualizer or an analyst call for one agent.
EmitSingle ==
    /\ stepOpen
    /\ \E n \in Nodes :
          /\ execPlan[n].type # "researcher"
          /\ nodeState[n] = "waiting"
          /\ nodeState' = [nodeState EXCEPT ![n] = "inflight"]
          /\ nodeCall' = [nodeCall EXCEPT ![n] = n]
    /\ UNCHANGED <<execPlan, stepOpen>>

\* The orchestrator ends its step.
StepFinish ==
    /\ stepOpen
    /\ \E n \in Nodes : nodeState[n] # "waiting"
    /\ stepOpen' = FALSE
    /\ UNCHANGED <<execPlan, nodeState, nodeCall>>

\* The provider call of one agent settles (with a result or a failure).
NodeSettle ==
    /\ \E n \in Nodes :
          /\ nodeState[n] = "inflight"
          /\ nodeState' = [nodeState EXCEPT ![n] = "settled"]
    /\ UNCHANGED <<execPlan, nodeCall, stepOpen>>

\* A tool call returns: a research call once all its searches have settled
\* (Promise.all), any other call once its one provider call has.
CallReturn ==
    /\ \E c \in Nodes :
          LET members == {n \in Nodes : nodeCall[n] = c /\ nodeState[n] # "recorded"}
          IN  /\ members # {}
              /\ \A n \in members : nodeState[n] = "settled"
              /\ nodeState' = [n \in Nodes |->
                                  IF n \in members THEN "recorded" ELSE nodeState[n]]
    /\ UNCHANGED <<execPlan, nodeCall, stepOpen>>

\* Every call of the step has returned: streamText runs the next step.
StepBegin ==
    /\ ~stepOpen
    /\ \A n \in Nodes : nodeState[n] \in {"waiting", "recorded"}
    /\ \E n \in Nodes : nodeState[n] = "waiting"
    /\ stepOpen' = TRUE
    /\ UNCHANGED <<execPlan, nodeState, nodeCall>>

(***************************************************************************)
(* One conversation. chat/page.tsx: useChat and handleFormSubmit;          *)
(* api/chat/route.ts: POST and streamText; MessageList.tsx: the answer to  *)
(* an information request. The orchestrator model chooses the tool calls   *)
(* of every step; the system prompt asks it for an order, the code only    *)
(* offers it the tools.                                                    *)
(***************************************************************************)

\* maxSteps of streamText in route.ts
maxSteps == 30

MaxCallsPerStep == 2

\* The tools of runtimeTools that have an execute function.
ServerTools ==
    {"classify", "getWeatherInformation", "askPossibility", "planning",
     "research", "analyst", "contextualizer", "council", "finalAnswer"}

\* The tools of runtimeTools without execute: their calls are answered on the
\* client.
ClientTools == {"askForConfirmation", "getLocation", "askAdditionalInfo"}

runtimeTools == ServerTools \cup ClientTools

IdleRun ==
    /\ status = "ready"
    /\ stepCount = 0
    /\ callsInStep = 0
    /\ lastTool = "none"
    /\ awaitsClient = FALSE
    /\ possibility = "none"
    /\ assessed = {}
    /\ infoReq = "none"
    /\ answered = FALSE
    /\ planExists = FALSE
    /\ planEmpty = FALSE
    /\ councilCalled = FALSE
    /\ finalDone = FALSE

\* handleFormSubmit (with the submit button, disabled while isLoading): a new
\* user message is appended and posted. A request whose messages hold a tool
\* invocation without a result is refused when the messages are converted.
UserSubmit ==
    /\ status \notin {"submitted", "streaming"}
    /\ IF infoReq = "call"
       THEN /\ status' = "error"
            /\ UNCHANGED <<possibility, assessed, answered, planExists, lastTool,
                           taskFlags>>
       ELSE /\ status' = "submitted"
            /\ possibility' = "none"
            /\ assessed' = {}
            /\ answered' = FALSE
            /\ planExists' = FALSE
            /\ planEmpty' = FALSE
            /\ councilCalled' = FALSE
            /\ finalDone' = FALSE
            /\ lastTool' = "none"
    /\ stepCount' = 0
    /\ callsInStep' = 0
    /\ awaitsClient' = FALSE
    /\ UNCHANGED infoReq

\* POST: streamText starts its first step.
ServerStart ==
    /\ status = "submitted"
    /\ status' = "streaming"
    /\ stepCount' = 1
    /\ callsInStep' = 0
    /\ awaitsClient' = FALSE
    /\ UNCHANGED <<lastTool, possibility, assessed, infoReq, answered, planExists,
                   taskFlags>>

\* The orchestrator emits a call of a tool that has an execute function; the
\* call is executed and its result recorded.
EmitServerCall ==
    /\ status = "streaming"
    /\ callsInStep < MaxCallsPerStep
    /\ \E t \in ServerTools :
          /\ lastTool' = t
          /\ IF t = "askPossibility"
             THEN possibility' \in {"YES", "NO", "failed"}
             ELSE possibility' = possibility
          /\ assessed' = IF t \in {"classify", "askPossibility"}
                         THEN assessed \cup {t}
                         ELSE assessed
          /\ planExists' = (planExists \/ t = "planning")
          /\ IF t = "planning"
             THEN planEmpty' \in BOOLEAN
             ELSE planEmpty' = planEmpty
          /\ councilCalled' = (councilCalled \/ t = "council")
          /\ finalDone' = (finalDone \/ t = "finalAnswer")
    /\ callsInStep' = callsInStep + 1
    /\ UNCHANGED <<status, stepCount, awaitsClient, infoReq, answered>>

\* The orchestrator emits a planning call whose arguments planningSchema
\* rejects: execute is not run and the request ends with an error.
EmitInvalidPlanning ==
    /\ status = "streaming"
    /\ callsInStep < MaxCallsPerStep
    /\ lastTool' = "planning"
    /\ status' = "error"
    /\ callsInStep' = callsInStep + 1
    /\ UNCHANGED <<stepCount, awaitsClient, possibility, assessed, infoReq,
                   answered, planExists, taskFlags>>

\* The orchestrator emits askAdditionalInfo: the tool has no execute, so the
\* call is sent to the client without a result.
EmitAskAdditionalInfo ==
    /\ status = "streaming"
    /\ callsInStep < MaxCallsPerStep
    /\ infoReq # "call"
    /\ infoReq' = "call"
    /\ lastTool' = "askAdditionalInfo"
    /\ awaitsClient' = TRUE
    /\ callsInStep' = callsInStep + 1
    /\ UNCHANGED <<status, stepCount, possibility, assessed, answered, planExists,
                   taskFlags>>

\* The orchestrator ends its step. streamText runs another step only if the
\* step called tools, every call has its result, and fewer than maxSteps
\* steps were run; otherwise the request is finished.
StepEnd ==
    /\ status = "streaming"
    /\ IF callsInStep > 0 /\ ~awaitsClient /\ stepCount < maxSteps
       THEN /\ stepCount' = stepCount + 1
            /\ status' = "streaming"
       ELSE /\ stepCount' = stepCount
            /\ status' = "ready"
    /\ callsInStep' = 0
    /\ UNCHANGED <<lastTool, awaitsClient, possibility, assessed, infoReq,
                   answered, planExists, taskFlags>>

\* handleSubmitInput: the user's answer becomes the result of the pending
\* askAdditionalInfo invocation; useChat posts the messages again once the
\* request that emitted the call is finished.
AnswerInfo ==
    /\ infoReq = "call"
    /\ status = "ready"
    /\ infoReq' = "result"
    /\ answered' = TRUE
    /\ assessed' = {}
    /\ status' = "submitted"
    /\ stepCount' = 0
    /\ callsInStep' = 0
    /\ awaitsClient' = FALSE
    /\ UNCHANGED <<lastTool, possibility, planExists, taskFlags>>

(***************************************************************************)
(* chat/page.tsx handleFormSubmit and the submit button of ChatInput. The  *)
(* form is submitted by its button only: the textarea has no key handler.  *)
(***************************************************************************)

MaxPosts == 3

NoPost == [content |-> "", localContext |-> {}]

SubmitNeverDisabled(st) == FALSE

\* disabled={isLoading}, isLoading = status === 'submitted' ||
\* status === 'streaming'
SubmitDisabled(st) == st \in {"submitted", "streaming"}

\* if (!input || status === 'submitted') return;
handleFormSubmitReturns(input, st) == input = "" \/ st = "submitted"

IdleForm ==
    /\ formStatus = "ready"
    /\ formInput = ""
    /\ storedTexts = {}
    /\ lastPost = NoPost
    /\ postCount = 0

\* handleInputChange of useChat: the user edits the text.
FormType ==
    /\ formInput' \in InputTexts
    /\ UNCHANGED <<formStatus, storedTexts, lastPost, postCount>>

\* Extracted texts are saved to or removed from localStorage.
StorageChange ==
    /\ storedTexts' \in SUBSET FileNames
    /\ UNCHANGED <<formStatus, formInput, lastPost, postCount>>

\* A click on the submit button: handleFormSubmit.
FormSubmit ==
    /\ ~SubmitDisabled(formStatus)
    /\ postCount < MaxPosts
    /\ IF handleFormSubmitReturns(formInput, formStatus)
       THEN UNCHANGED <<formStatus, formInput, lastPost, postCount>>
       ELSE /\ lastPost' = [content |-> formInput, localContext |-> storedTexts]
            /\ postCount' = postCount + 1
            /\ formStatus' = "submitted"
            /\ formInput' = ""
    /\ UNCHANGED storedTexts

\* The request goes on: the response starts to stream, ends, or fails.
FormProgress ==
    /\ \/ formStatus = "submitted" /\ formStatus' \in {"streaming", "error"}
       \/ formStatus = "streaming" /\ formStatus' \in {"ready", "error"}
    /\ UNCHANGED <<formInput, storedTexts, lastPost, postCount>>

(***************************************************************************)
(* fileStorage.ts: the extracted texts are the properties of one object    *)
(* kept as JSON in localStorage. The object JSON.parse returns inherits    *)
(* from Object.prototype.                                                  *)
(***************************************************************************)

\* File names: two ordinary ones, and one that is also the name of a
\* property of Object.prototype.
StoredNames == {"a.txt", "b.txt", "constructor"}

PrototypeNames == {"constructor"}

\* Date.now() at the time of a save.
Times == {1}

FileRecords ==
    [fileName : StoredNames, fileType : {"text/plain"}, fileSize : {1},
     text : {"x", "y"}, extractedAt : Times]

NoRecord ==
    [fileName |-> "", fileType |-> "", fileSize |-> 0, text |-> "", extractedAt |-> 0]

\* texts[fileName]: the own property, else the property inherited from
\* Object.prototype, else undefined.
Property(texts, fileName) ==
    IF texts[fileName] # NoRecord
    THEN [kind |-> "record", record |-> texts[fileName]]
    ELSE IF fileName \in PrototypeNames
         THEN [kind |-> "inherited", record |-> NoRecord]
         ELSE [kind |-> "undefined", record |-> NoRecord]

\* getExtractedText: return texts[fileName] || null
getExtractedText(texts, fileName) ==
    IF Property(texts, fileName).kind = "undefined"
    THEN [kind |-> "null", record |-> NoRecord]
    ELSE Property(texts, fileName)

\* localStorage.setItem stores the value, or throws (quota exceeded,
\* storage disabled); both functions catch and log.
SetItemOutcomes == {"stored", "throws"}

IdleStorage ==
    /\ storage = [f \in StoredNames |-> NoRecord]
    /\ lastOp = [f \in StoredNames |-> "none"]
    /\ lastSaved = [f \in StoredNames |-> NoRecord]

\* saveExtractedText(fileName, fileType, fileSize, text)
SaveExtractedText ==
    \E record \in FileRecords, outcome \in SetItemOutcomes :
        LET existingData == [storage EXCEPT ![record.fileName] = record]
        IN  /\ storage' = IF outcome = "stored" THEN existingData ELSE storage
            /\ lastOp' = [lastOp EXCEPT ![record.fileName] = "save"]
            /\ lastSaved' = [lastSaved EXCEPT ![record.fileName] = record]

\* removeExtractedText(fileName)
RemoveExtractedText ==
    \E fileName \in StoredNames, outcome \in SetItemOutcomes :
        LET existingData == [storage EXCEPT ![fileName] = NoRecord]
        IN  /\ storage' = IF Property(storage, fileName).kind # "undefined"
                              /\ outcome = "stored"
                           THEN existingData
                           ELSE storage
            /\ lastOp' = [lastOp EXCEPT ![fileName] = "remove"]
            /\ UNCHANGED lastSaved

(***************************************************************************)
(* The step loops. Server: streamText({maxSteps}) of the three route       *)
(* variants runs a further step while the last step called tools, all of   *)
(* them have results, and fewer than maxSteps steps were run. Client:      *)
(* useChat({maxSteps: 5}) sends the messages again by itself when the      *)
(* stream has ended, the tool calls of the last step all have results, and *)
(* the step number of the last tool invocation is below its maxSteps.      *)
(***************************************************************************)

RouteVariants == {"route.ts", "page.tsx", "part_004"}

\* maxSteps of streamText in the route embedded in chat/page.tsx
pageMaxSteps == 10

\* maxSteps of streamText in the route with overrideUserMessage
overrideMaxSteps == 20

\* maxSteps of useChat in ChatPage
clientMaxSteps == 5

maxStepsOf(route) ==
    IF route = "route.ts" THEN maxSteps
    ELSE IF route = "page.tsx" THEN pageMaxSteps
    ELSE overrideMaxSteps

\* What a step of the orchestrator holds: text only; calls of tools with
\* execute; or a call of getLocation, which onToolCall answers on the client.
StepKinds == {"text", "server", "client"}

AnotherStepUnlimited(kind, steps, limit) == kind = "server"

\* streamText goes on to another step.
AnotherStep(kind, steps, limit) == kind = "server" /\ steps < limit

\* useChat sends the messages again by itself.
Resubmits(kind, step) == kind \in {"server", "client"} /\ step < clientMaxSteps

IdleLoop ==
    /\ loopRoute = "route.ts"
    /\ loopPc = "ready"
    /\ loopSteps = 0
    /\ lastStep = "none"
    /\ messageStep = 0
    /\ autoResubmits = 0

\* The user sends a message: POST, streamText starts its first step.
LoopSubmit ==
    /\ loopPc = "ready"
    /\ loopPc' = "streaming"
    /\ loopSteps' = 1
    /\ lastStep' = "none"
    /\ messageStep' = 0
    /\ autoResubmits' = 0
    /\ UNCHANGED loopRoute

\* A step of streamText finishes; the loop starts the next step or ends the
\* response.
LoopStepFinish ==
    /\ loopPc = "streaming"
    /\ \E kind \in StepKinds :
          /\ lastStep' = kind
          /\ messageStep' = IF kind # "text" /\ messageStep <= clientMaxSteps
                             THEN messageStep + 1
                             ELSE messageStep
          /\ IF AnotherStep(kind, loopSteps, maxStepsOf(loopRoute))
             THEN /\ loopSteps' = loopSteps + 1
                  /\ loopPc' = "streaming"
             ELSE /\ loopSteps' = loopSteps
                  /\ loopPc' = "finished"
    /\ UNCHANGED <<loopRoute, autoResubmits>>

\* The stream has ended on the client: useChat sends the messages again, or
\* is ready for the user.
LoopClientFinish ==
    /\ loopPc = "finished"
    /\ IF Resubmits(lastStep, messageStep - 1)
       THEN /\ loopPc' = "streaming"
            /\ loopSteps' = 1
            /\ autoResubmits' = autoResubmits + 1
       ELSE /\ loopPc' = "ready"
            /\ loopSteps' = 0
            /\ autoResubmits' = autoResubmits
    /\ UNCHANGED <<loopRoute, lastStep, messageStep>>

(***************************************************************************)
(* Specifications                                                          *)
(***************************************************************************)

notCouncil ==
    <<researchVars, planVars, execVars, runVars, assessVars, ctxVars, ovVars,
      hitlVars, loopVars, formVars, storageVars>>

InitCouncil ==
    /\ IdleCouncil
    /\ IdleResearch
    /\ IdlePlan
    /\ IdleExec
    /\ IdleRun
    /\ IdleAssess
    /\ IdleContextualizer
    /\ IdleOverride
    /\ IdleHitl
    /\ IdleForm
    /\ IdleStorage
    /\ IdleLoop

NextCouncil ==
    \/ CouncilCall /\ UNCHANGED notCouncil
    \/ CouncilSettle /\ UNCHANGED notCouncil

SpecCouncil == InitCouncil /\ [][NextCouncil]_vars

notResearch ==
    <<councilVars, planVars, execVars, runVars, assessVars, ctxVars, ovVars,
      hitlVars, loopVars, formVars, storageVars>>

\* The module is loaded with or without EXA_API_KEY. Without it the module
\* warns and calls new Exa(undefined): the library constructs a client, or
\* its constructor throws and the module, with its tool, is not loaded.
InitResearch ==
    /\ IdleCouncil
    /\ IdlePlan
    /\ IdleExec
    /\ IdleRun
    /\ IdleAssess
    /\ IdleContextualizer
    /\ IdleOverride
    /\ IdleHitl
    /\ IdleForm
    /\ IdleStorage
    /\ IdleLoop
    /\ apiKeySet \in BOOLEAN
    /\ researchPc \in (IF apiKeySet THEN {"idle"} ELSE {"idle", "loadFailed"})
    /\ queries = <<>>
    /\ promiseState = <<>>
    /\ promiseValue = <<>>
    /\ searchOutcome = <<>>
    /\ researchResult = <<>>
    /\ searchCalls = 0

NextResearch ==
    \/ ResearchNoKey /\ UNCHANGED notResearch
    \/ ResearchCall /\ UNCHANGED notResearch
    \/ SearchSettle /\ UNCHANGED notResearch
    \/ ResearchReturn /\ UNCHANGED notResearch

SpecResearch == InitResearch /\ [][NextResearch]_vars

notPlan ==
    <<councilVars, researchVars, execVars, runVars, assessVars, ctxVars,
      ovVars, hitlVars, loopVars, formVars, storageVars>>

InitPlan ==
    /\ IdleCouncil
    /\ IdleResearch
    /\ IdlePlan
    /\ IdleExec
    /\ IdleRun
    /\ IdleAssess
    /\ IdleContextualizer
    /\ IdleOverride
    /\ IdleHitl
    /\ IdleForm
    /\ IdleStorage
    /\ IdleLoop

NextPlan ==
    \/ PlanningCall /\ UNCHANGED notPlan
    \/ PlanningExecute /\ UNCHANGED notPlan

SpecPlan == InitPlan /\ [][NextPlan]_vars

notExec ==
    <<councilVars, researchVars, planVars, runVars, assessVars, ctxVars,
      ovVars, hitlVars, loopVars, formVars, storageVars>>

\* The state after the planning tool returned a plan: the first execution
\* step begins.
InitExec ==
    /\ IdleCouncil
    /\ IdleResearch
    /\ IdlePlan
    /\ IdleRun
    /\ IdleAssess
    /\ IdleContextualizer
    /\ IdleOverride
    /\ IdleHitl
    /\ IdleForm
    /\ IdleStorage
    /\ IdleLoop
    /\ execPlan \in ExecPlans
    /\ nodeState = [n \in 1..Len(execPlan) |-> "waiting"]
    /\ nodeCall = [n \in 1..Len(execPlan) |-> 0]
    /\ stepOpen = TRUE

NextExec ==
    \/ EmitResearch /\ UNCHANGED notExec
    \/ EmitSingle /\ UNCHANGED notExec
    \/ StepFinish /\ UNCHANGED notExec
    \/ NodeSettle /\ UNCHANGED notExec
    \/ CallReturn /\ UNCHANGED notExec
    \/ StepBegin /\ UNCHANGED notExec

SpecExec == InitExec /\ [][NextExec]_vars

notRun ==
    <<councilVars, researchVars, planVars, execVars, assessVars, ctxVars,
      ovVars, hitlVars, loopVars, formVars, storageVars>>

Init ==
    /\ IdleCouncil
    /\ IdleResearch
    /\ IdlePlan
    /\ IdleExec
    /\ IdleRun
    /\ IdleAssess
    /\ IdleContextualizer
    /\ IdleOverride
    /\ IdleHitl
    /\ IdleForm
    /\ IdleStorage
    /\ IdleLoop

Next ==
    \/ UserSubmit /\ UNCHANGED notRun
    \/ ServerStart /\ UNCHANGED notRun
    \/ EmitServerCall /\ UNCHANGED notRun
    \/ EmitInvalidPlanning /\ UNCHANGED notRun
    \/ EmitAskAdditionalInfo /\ UNCHANGED notRun
    \/ StepEnd /\ UNCHANGED notRun
    \/ AnswerInfo /\ UNCHANGED notRun

Spec == Init /\ [][Next]_vars

notAssess ==
    <<councilVars, researchVars, planVars, execVars, runVars, ctxVars,
      ovVars, hitlVars, loopVars, formVars, storageVars>>

InitAssess ==
    /\ IdleCouncil
    /\ IdleResearch
    /\ IdlePlan
    /\ IdleExec
    /\ IdleRun
    /\ IdleAssess
    /\ IdleContextualizer
    /\ IdleOverride
    /\ IdleHitl
    /\ IdleForm
    /\ IdleStorage
    /\ IdleLoop

NextAssess ==
    \/ ClassifyCall /\ UNCHANGED notAssess
    \/ ClassifySettle /\ UNCHANGED notAssess
    \/ PossibilityCall /\ UNCHANGED notAssess
    \/ PossibilitySettle /\ UNCHANGED notAssess

SpecAssess == InitAssess /\ [][NextAssess]_vars

notContextualizer ==
    <<councilVars, researchVars, planVars, execVars, runVars, assessVars,
      ovVars, hitlVars, loopVars, formVars, storageVars>>

InitContextualizer ==
    /\ IdleCouncil
    /\ IdleResearch
    /\ IdlePlan
    /\ IdleExec
    /\ IdleRun
    /\ IdleAssess
    /\ IdleContextualizer
    /\ IdleOverride
    /\ IdleHitl
    /\ IdleForm
    /\ IdleStorage
    /\ IdleLoop

NextContextualizer ==
    \/ ContextRequest /\ UNCHANGED notContextualizer
    \/ ContextualizerCall /\ UNCHANGED notContextualizer
    \/ ContextualizerSettle /\ UNCHANGED notContextualizer

SpecContextualizer == InitContextualizer /\ [][NextContextualizer]_vars

notOverride ==
    <<councilVars, researchVars, planVars, execVars, runVars, assessVars,
      ctxVars, hitlVars, loopVars, formVars, storageVars>>

InitOverride ==
    /\ IdleCouncil
    /\ IdleResearch
    /\ IdlePlan
    /\ IdleExec
    /\ IdleRun
    /\ IdleAssess
    /\ IdleContextualizer
    /\ IdleOverride
    /\ IdleHitl
    /\ IdleForm
    /\ IdleStorage
    /\ IdleLoop

NextOverride ==
    \/ OverrideReceive /\ UNCHANGED notOverride
    \/ OverrideApply /\ UNCHANGED notOverride

SpecOverride == InitOverride /\ [][NextOverride]_vars

notHitl ==
    <<councilVars, researchVars, planVars, execVars, runVars, assessVars,
      ctxVars, ovVars, loopVars, formVars, storageVars>>

InitHitl ==
    /\ IdleCouncil
    /\ IdleResearch
    /\ IdlePlan
    /\ IdleExec
    /\ IdleRun
    /\ IdleAssess
    /\ IdleContextualizer
    /\ IdleOverride
    /\ IdleHitl
    /\ IdleForm
    /\ IdleStorage
    /\ IdleLoop

NextHitl ==
    \/ InvocationArrives /\ UNCHANGED notHitl
    \/ ConfirmClick /\ UNCHANGED notHitl
    \/ InputChange /\ UNCHANGED notHitl
    \/ SubmitInput /\ UNCHANGED notHitl

SpecHitl == InitHitl /\ [][NextHitl]_vars

notLoop ==
    <<councilVars, researchVars, planVars, execVars, runVars, assessVars,
      ctxVars, ovVars, hitlVars, formVars, storageVars>>

\* The chat is served by one of the route variants.
InitLoop ==
    /\ IdleCouncil
    /\ IdleResearch
    /\ IdlePlan
    /\ IdleExec
    /\ IdleRun
    /\ IdleAssess
    /\ IdleContextualizer
    /\ IdleOverride
    /\ IdleHitl
    /\ IdleForm
    /\ IdleStorage
    /\ loopRoute \in RouteVariants
    /\ loopPc = "ready"
    /\ loopSteps = 0
    /\ lastStep = "none"
    /\ messageStep = 0
    /\ autoResubmits = 0

NextLoop ==
    \/ LoopSubmit /\ UNCHANGED notLoop
    \/ LoopStepFinish /\ UNCHANGED notLoop
    \/ LoopClientFinish /\ UNCHANGED notLoop

SpecLoop == InitLoop /\ [][NextLoop]_vars

notForm ==
    <<councilVars, researchVars, planVars, execVars, runVars, assessVars,
      ctxVars, ovVars, hitlVars, loopVars, storageVars>>

InitForm ==
    /\ IdleCouncil
    /\ IdleResearch
    /\ IdlePlan
    /\ IdleExec
    /\ IdleRun
    /\ IdleAssess
    /\ IdleContextualizer
    /\ IdleOverride
    /\ IdleHitl
    /\ IdleLoop
    /\ IdleForm
    /\ IdleStorage

NextForm ==
    \/ FormType /\ UNCHANGED notForm
    \/ StorageChange /\ UNCHANGED notForm
    \/ FormSubmit /\ UNCHANGED notForm
    \/ FormProgress /\ UNCHANGED notForm

SpecForm == InitForm /\ [][NextForm]_vars

notStorage ==
    <<councilVars, researchVars, planVars, execVars, runVars, assessVars,
      ctxVars, ovVars, hitlVars, loopVars, formVars>>

InitStorage ==
    /\ IdleCouncil
    /\ IdleResearch
    /\ IdlePlan
    /\ IdleExec
    /\ IdleRun
    /\ IdleAssess
    /\ IdleContextualizer
    /\ IdleOverride
    /\ IdleHitl
    /\ IdleLoop
    /\ IdleForm
    /\ IdleStorage

NextStorage ==
    \/ SaveExtractedText /\ UNCHANGED notStorage
    \/ RemoveExtractedText /\ UNCHANGED notStorage

SpecStorage == InitStorage /\ [][NextStorage]_vars

(***************************************************************************)
(* Claims                                                                  *)
(***************************************************************************)

\* C1: executeCouncil never throws; it always resolves with a verdict whose
\* judgement is one of the five of the schema, and whenever the model call
\* faulted the verdict is 'error' with the fault description in the
\* explanation.
Contains(seq, x) == \E i \in 1..Len(seq) : seq[i] = x

CouncilTotal ==
    /\ councilPc # "threw"
    /\ councilPc = "returned" =>
          /\ councilResult.judgement \in Judgements
          /\ councilFault # <<>> =>
                /\ councilResult.judgement = "error"
                /\ Contains(councilResult.explanation, councilFault[1])

\* A call whose model call threw has returned.
CouncilFaultReturned ==
    /\ councilPc = "returned"
    /\ councilFault # <<>>
    /\ councilResult.judgement = "error"

\* C2: the array research returns has one entry per submitted query, in the
\* order of the queries, each entry carrying its own query, whichever
\* searches succeeded or failed.
OneEntryPerQuery ==
    researchPc = "returned" =>
        /\ Len(researchResult) = Len(queries)
        /\ \A i \in 1..Len(queries) : researchResult[i].query = queries[i]

\* A research call of two queries has returned with one search failed and
\* one succeeded.
ResearchReturnedMixed ==
    /\ researchPc = "returned"
    /\ Len(queries) = 2
    /\ \E i, j \in 1..Len(queries) :
          /\ searchOutcome[i].kind = "ok"
          /\ searchOutcome[j].kind \in {"Error", "value"}

\* C3: a search that throws is recorded as a failed entry (no results and an
\* error message) for its own query only; every other search of the call
\* still settles and is recorded with its own outcome, and the call returns
\* instead of throwing.
FailureIsNodeLocal ==
    /\ researchPc # "threw"
    /\ (researchPc = "returned" /\ apiKeySet) =>
          /\ \A i \in 1..Len(promiseState) : promiseState[i] = "fulfilled"
          /\ Len(researchResult) = Len(queries)
          /\ \A i \in 1..Len(queries) :
                IF searchOutcome[i].kind = "ok"
                THEN /\ researchResult[i].error = ""
                     /\ Len(researchResult[i].results) = Len(searchOutcome[i].results)
                ELSE /\ researchResult[i].results = <<>>
                     /\ researchResult[i].error # ""

\* A call has returned in which the first search threw and the second is
\* recorded with its result.
SiblingRecordedAfterFailure ==
    /\ researchPc = "returned"
    /\ Len(queries) = 2
    /\ searchOutcome[1].kind = "Error"
    /\ searchOutcome[2].kind = "ok"
    /\ researchResult[1].error = searchOutcome[1].message
    /\ Len(researchResult[2].results) = 1

\* The plan the planning step accepted and returned.
AcceptedAgents == planResult.agents

\* C5: no plan with a node that depends on its own order or on a later order
\* is accepted and returned by the planning step.
NoForwardDependencyAccepted ==
    planPc = "returned" =>
        \A i \in 1..Len(AcceptedAgents) :
            \A d \in AcceptedAgents[i].dependencies : d < AcceptedAgents[i].order

\* C6: in every plan the planning step accepted, each dependency value is the
\* order of some node of the plan.
NoDanglingDependencyAccepted ==
    planPc = "returned" =>
        \A i \in 1..Len(AcceptedAgents) :
            \A d \in AcceptedAgents[i].dependencies :
                \E j \in 1..Len(AcceptedAgents) : AcceptedAgents[j].order = d

\* A node of a type that requires a query and has none, or an empty one.
LacksQuery(agent) ==
    /\ agent.type \in {"researcher", "contextualizer", "analyst"}
    /\ (~agent.query.present \/ Len(agent.query.text) < 1)

\* C7: validation reports a query issue exactly for the nodes of type
\* researcher, contextualizer or analyst whose query is missing or empty, and
\* every such node of a plan that passed validation has a string query of
\* length at least 1.
QueryRuleExact ==
    /\ planPc # "idle" =>
          \A i \in 1..Len(planArgs.agents) :
              (<<i, "query">> \in planIssues) <=> LacksQuery(planArgs.agents[i])
    /\ planPc \in {"validated", "returned"} =>
          \A i \in 1..Len(planArgs.agents) :
              planArgs.agents[i].type \in {"researcher", "contextualizer", "analyst"}
                  => /\ planArgs.agents[i].query.present
                     /\ Len(planArgs.agents[i].query.text) >= 1

\* A plan was rejected for nothing but the empty query of its analyst node.
RejectedForEmptyQuery ==
    /\ planPc = "rejected"
    /\ planIssues = {<<1, "query">>}
    /\ planArgs.agents[1].type = "analyst"
    /\ planArgs.agents[1].query = [present |-> TRUE, text |-> <<>>]

\* C4: full barrier between order groups: no call of a later order group is
\* started or in flight while a call of an earlier group is still in flight
\* (the order-2 agent is not dispatched until the order-1 results are
\* recorded).
BarrierBetweenGroups ==
    \A n, m \in Nodes :
        (execPlan[m].order < execPlan[n].order /\ nodeState[m] = "inflight")
            => nodeState[n] \in {"waiting"}

\* The step taken is the execution of a call of tool t.
Called(t) == callsInStep' = callsInStep + 1 /\ lastTool' = t

\* C8: once askPossibility has returned isPossible = 'NO', no planning call
\* occurs in the run.
NoPlanningAfterInfeasible ==
    [][possibility = "NO" => ~Called("planning")]_vars

\* C9: while an information request is pending (emitted, its answer not yet
\* recorded), no tool call occurs.
NoCallWhileSuspended ==
    [][infoReq = "call" => callsInStep' # callsInStep + 1]_vars

\* C10: after the answer to an information request was supplied, planning is
\* called only once classify and askPossibility have been called again.
ReassessedBeforePlanning ==
    [][(answered /\ Called("planning")) =>
          {"classify", "askPossibility"} \subseteq assessed]_vars

\* The tools the PROCESS of the system prompt names for the execution of a
\* plan (no tool named qa exists in runtimeTools).
ExecutionTools == {"research", "analyst", "contextualizer"}

\* C11: the phases of a task occur in order: askPossibility only after
\* classify, no execution tool and no council call before a plan exists, and
\* finalAnswer only after the council, or after an infeasible verdict.
PhasesInOrder ==
    [][/\ Called("askPossibility") => "classify" \in assessed
       /\ (\E t \in ExecutionTools : Called(t)) => planExists
       /\ Called("council") => planExists
       /\ Called("finalAnswer") => (councilCalled \/ possibility = "NO")]_vars

\* C12: once finalAnswer has been executed, no further tool call is executed
\* in the run.
SynthesisTerminal ==
    [][finalDone => \A t \in ServerTools : ~Called(t)]_vars

\* C13: a request ends only with a final answer (the finalAnswer tool was
\* executed, or the last step is the orchestrator's text without tool calls)
\* or with a call that waits for the user's input.
RunEndsAnswered ==
    [][(status = "streaming" /\ status' \in {"ready", "error"}) =>
          (finalDone \/ awaitsClient \/ callsInStep = 0)]_vars

\* C14: a planning call never ends the request in an error: a plan that
\* fails validation leads to a second planning call or to the final answer.
PlanningFailureHandled ==
    [][Called("planning") => status' # "error"]_vars

\* C17: the council is executed at most once in a task.
CouncilOnce ==
    [][Called("council") => ~councilCalled]_vars

\* C19: while the plan of the task is the empty plan, no execution tool is
\* called.
EmptyPlanSkipsExecution ==
    [][(planExists /\ planEmpty) => \A t \in ExecutionTools : ~Called(t)]_vars

\* The searches of the research call that were started and have not settled.
InFlight == {i \in 1..Len(promiseState) : promiseState[i] = "pending"}

\* C15: the number of searches in flight at the research provider never
\* exceeds the limit, however many queries the call was given.
InFlightBelowCeiling == Cardinality(InFlight) <= ResearcherLimit

\* More researcher agents than the limit share one order number.
CrowdedOrder(agents) ==
    \E o \in OrderValues :
        Cardinality({i \in 1..Len(agents) :
                        agents[i].type = "researcher" /\ agents[i].order = o})
            > ResearcherLimit

\* C16: a plan that puts more researchers than the limit at one order is
\* accepted, and the outcome of its validation flags it: issues are
\* reported, or what the planning tool returns differs from its arguments.
RateLimitFlagged ==
    (planPc = "returned" /\ CrowdedOrder(planArgs.agents))
        => (planIssues # {} \/ planResult # planArgs)

\* C18: a plan whose agents all have one of the four type words, a non-empty
\* query and dependencies on earlier orders of the plan is accepted.
FourTypesAccepted ==
    (/\ planPc # "idle"
     /\ WellFormedPlan(planArgs.agents)
     /\ \A i \in 1..Len(planArgs.agents) :
           /\ planArgs.agents[i].type \in AgentTypeWords
           /\ planArgs.agents[i].query.present
           /\ Len(planArgs.agents[i].query.text) > 0)
        => planPc # "rejected"

\* C20: classify and askPossibility never throw out of execute: when their
\* model call faults they return success = false with an error message, and
\* otherwise success = true with the payload of the schema's type.
AssessmentAbsorbsFaults ==
    /\ assessPc # "threw"
    /\ assessPc = "returned" =>
          LET faulted == \/ assessOutcome.kind \in {"Error", "value"}
                         \/ assessOutcome.raw.verdict \in {"UNKNOWN", "MAYBE"}
                         \/ ~assessOutcome.raw.hasText
          IN  IF faulted
              THEN /\ assessResult.success = FALSE
                   /\ assessResult.error # ""
              ELSE /\ assessResult.success = TRUE
                   /\ assessResult.payload = assessOutcome.raw
                   /\ assessResult.key =
                         IF assessTool = "classify" THEN "classification" ELSE "result"
                   /\ assessResult.payload.verdict \in
                         IF assessTool = "classify" THEN Complexities ELSE {"YES", "NO"}

\* A classify call whose provider call threw has returned.
ClassifyFaultReturned ==
    /\ assessPc = "returned"
    /\ assessTool = "classify"
    /\ assessOutcome.kind = "Error"
    /\ assessResult.success = FALSE

\* What holds of every returned contextualizer result, whatever "empty"
\* means for the text of the search: a result with the query of the call;
\* no search and an error for a short query or an empty context; an error
\* when the search threw.
ContextualizerFrame ==
    /\ ctxPc # "threw"
    /\ ctxPc = "returned" =>
          /\ ctxResult.query = ctxQuery
          /\ (Len(Trim(ctxQuery)) < 3 \/ ctxFiles = {}) =>
                (ctxSearches = 0 /\ ctxResult.error.set)
          /\ ctxOutcome.kind \in {"Error", "value"} => ctxResult.error.set

\* C21 as stated: executeContextualizer never throws, and the error field
\* is absent exactly when a search was made and returned a non-empty text.
ContextualizerErrorIffEmpty ==
    /\ ContextualizerFrame
    /\ ctxPc = "returned" =>
          (~ctxResult.error.set <=>
              (ctxSearches = 1 /\ ctxOutcome.kind = "text" /\ ctxOutcome.text # <<>>))

\* C21 amended: executeContextualizer never throws, and the error field is
\* absent exactly when a search was made and returned a text that is not
\* empty after trimming; foundContext is then the trimmed text.
ContextualizerErrorIffBlank ==
    /\ ContextualizerFrame
    /\ ctxPc = "returned" =>
          /\ ~ctxResult.error.set <=>
                (/\ ctxSearches = 1
                 /\ ctxOutcome.kind = "text"
                 /\ Trim(ctxOutcome.text) # <<>>)
          /\ ~ctxResult.error.set => ctxResult.foundContext = Trim(ctxOutcome.text)

\* A search that returned only white space has been reported as empty.
BlankSearchReturned ==
    /\ ctxPc = "returned"
    /\ ctxSearches = 1
    /\ ctxOutcome.kind = "text"
    /\ ctxOutcome.text = <<" ">>
    /\ ctxResult.error = [set |-> TRUE, text |-> "LLM search returned empty."]

PlanReturnedUnchanged ==
    planPc = "returned" =>
        /\ planResult.task = planArgs.task
        /\ Len(planResult.agents) = Len(planArgs.agents)
        /\ \A i \in 1..Len(planArgs.agents) : planResult.agents[i] = planArgs.agents[i]

\* A plan of two agents, one of them with a dependency on its own order, has
\* been returned.
TwoAgentPlanReturned ==
    /\ planPc = "returned"
    /\ Len(planArgs.agents) = 2
    /\ planArgs.agents[2].order = 1
    /\ planArgs.agents[2].dependencies = {1}
    /\ planResult = planArgs

\* The messages with role 'user' and string content.
UserStrings(msgs) ==
    {i \in 1..Len(msgs) : msgs[i].role = "user" /\ msgs[i].content.isString}

\* C23: the override replaces the content of exactly one message, the last
\* one with role 'user' and string content; all other messages and the
\* caller's array stay as they were; without such a message, or without an
\* override, nothing changes.
OverrideReplacesLastUser ==
    ovPc = "streaming" =>
        LET sent == ovBody.messages
            users == UserStrings(sent)
        IN  /\ ovOriginal = sent
            /\ Len(ovProcessed) = Len(sent)
            /\ ovMessages = <<SystemMessage>> \o ovProcessed
            /\ IF Truthy(ovBody.override) /\ users # {}
               THEN \A i \in 1..Len(sent) :
                       IF \A j \in users : j <= i
                       THEN IF i \in users
                            THEN /\ ovProcessed[i].role = "user"
                                 /\ ovProcessed[i].content =
                                       [isString |-> TRUE, value |-> ovBody.override.value]
                            ELSE ovProcessed[i] = sent[i]
                       ELSE ovProcessed[i] = sent[i]
               ELSE ovProcessed = sent

\* An override was applied to the second of three messages, the last user
\* message with string content, after which an assistant message follows.
OverrideAppliedInMiddle ==
    /\ ovPc = "streaming"
    /\ Len(ovBody.messages) = 3
    /\ UserStrings(ovBody.messages) = {1, 2}
    /\ ovBody.override = [given |-> TRUE, value |-> "o"]
    /\ ovProcessed[2].content.value = "o"
    /\ ovProcessed[1] = ovBody.messages[1]

\* C24: a request for the user's input gets at most one result: a result
\* is added only to an invocation in state 'call', a confirmation's result
\* is one of the two answers, and an invocation with a result gets no other.
AtMostOneResult ==
    \A id \in ToolCallIds :
        /\ resultsAdded[id] <= 1
        /\ resultsAdded[id] = 1 <=> invocations[id].state = "result"
        /\ (invocations[id].state = "result"
                /\ invocations[id].toolName = "askForConfirmation") =>
              invocations[id].result \in {"Yes, confirmed.", "No, denied"}

\* Both requests, a confirmation and an information request, were answered.
BothRequestsAnswered ==
    /\ invocations["c1"].toolName = "askForConfirmation"
    /\ invocations["c1"].state = "result"
    /\ invocations["c2"].toolName = "askAdditionalInfo"
    /\ invocations["c2"].state = "result"

\* C25: an information request's result is the non-empty text stored for
\* its own toolCallId, and a step changes the stored text of at most one
\* toolCallId, one whose invocation is an information request in state
\* 'call'.
AnswerReachesItsRequest ==
    /\ [](\A id \in ToolCallIds :
            (invocations[id].toolName = "askAdditionalInfo"
                /\ invocations[id].state = "result") =>
               /\ invocations[id].result # ""
               /\ invocations[id].result = additionalInfoInput[id])
    /\ [][\A id \in ToolCallIds :
            additionalInfoInput'[id] # additionalInfoInput[id] =>
               /\ invocations[id].toolName = "askAdditionalInfo"
               /\ invocations[id].state = "call"
               /\ \A other \in ToolCallIds \ {id} :
                     additionalInfoInput'[other] = additionalInfoInput[other]]_vars

\* Two information requests hold different answers.
TwoAnswersApart ==
    /\ invocations["c1"] = [toolName |-> "askAdditionalInfo", state |-> "result",
                             result |-> "a"]
    /\ invocations["c2"] = [toolName |-> "askAdditionalInfo", state |-> "result",
                             result |-> "b"]

\* C26: a request runs at most maxSteps steps of the orchestrator, 30, 10
\* or 20 by the route variant, whatever the steps hold, and useChat sends at
\* most 5 requests by itself for one user message.
StepsBounded ==
    /\ loopSteps <= maxStepsOf(loopRoute)
    /\ loopRoute = "route.ts" => loopSteps <= 30
    /\ loopRoute = "page.tsx" => loopSteps <= 10
    /\ loopRoute = "part_004" => loopSteps <= 20
    /\ autoResubmits <= 5

\* The embedded route has stopped after its tenth step, which called tools,
\* in a request that useChat had sent by itself.
StoppedAtMaxSteps ==
    /\ loopRoute = "page.tsx"
    /\ loopPc = "finished"
    /\ loopSteps = 10
    /\ lastStep = "server"
    /\ autoResubmits > 0

\* C27: a user message is appended only while no request is in flight and
\* the input is not empty; it holds the input and the file context stored
\* at that moment, and the input is empty afterwards.
SubmitOnlyWhenIdle ==
    [][postCount' # postCount =>
          /\ formStatus \notin {"submitted", "streaming"}
          /\ formInput # ""
          /\ lastPost' = [content |-> formInput, localContext |-> storedTexts]
          /\ formInput' = ""
          /\ formStatus' = "submitted"]_vars

\* A second message was sent after the first request had ended, with the
\* file stored in between.
SecondMessageSent ==
    /\ postCount = 2
    /\ formStatus = "submitted"
    /\ lastPost = [content |-> "b", localContext |-> {"f1"}]
    /\ formInput = ""

\* C28: without the API key a research call makes no search and returns
\* one entry per query, in the order of the queries, each with its query,
\* no results and a non-empty error.
NoKeyNoSearch ==
    ~apiKeySet =>
        /\ researchPc \in {"idle", "loadFailed", "returned"}
        /\ searchCalls = 0
        /\ researchPc = "returned" =>
              /\ Len(researchResult) = Len(queries)
              /\ \A i \in 1..Len(queries) :
                    /\ researchResult[i].query = queries[i]
                    /\ researchResult[i].results = <<>>
                    /\ researchResult[i].error # ""

\* A call of two different queries has returned without the key.
NoKeyCallReturned ==
    /\ ~apiKeySet
    /\ researchPc = "returned"
    /\ queries = <<"q1", "q2">>

\* C29: the store is a map keyed by file name: getExtractedText(f) is the
\* record of the last save of f if the last call for f was a save, and null
\* if f was never saved or the last call for f was a remove.
StoreIsMap ==
    \A f \in StoredNames :
        getExtractedText(storage, f) =
            IF lastOp[f] = "save"
            THEN [kind |-> "record", record |-> lastSaved[f]]
            ELSE [kind |-> "null", record |-> NoRecord]

====
